---- MODULE Spec2Model ----
(***************************************************************************)
(* Model of skil/models.py: the Model wrapper of the SKIL client.  One     *)
(* Model object is followed from its construction (create or load mode)    *)
(* through delete, add_evaluation, deploy and undeploy.  The remote        *)
(* platform is an opaque collaborator: every remote call either returns a  *)
(* response or raises an ApiException, chosen nondeterministically.        *)
(***************************************************************************)
EXTENDS Integers, Sequences, FiniteSets, TLC

(***************************************************************************)
(* Bounds                                                                  *)
(***************************************************************************)
\* number of method calls made on a constructed Model
MaxOps == 3

(***************************************************************************)
(* Python values.  Strings are sequences of tokens, "/" being the path     *)
(* separator, so that formatting and joining are real concatenations.      *)
(***************************************************************************)
None == [t |-> "none"]
Str(s) == [t |-> "str", v |-> s]
PInt(n) == [t |-> "int", v |-> n]
PFloat(n) == [t |-> "float", v |-> n]
Obj(hasSave) == [t |-> "object", save |-> hasSave]
Uuid(n) == [t |-> "uuid", v |-> n]
\* an attribute that was never assigned on the object
Unset == [t |-> "unset"]

\* Python truth value: `if not experiment`, `id if id else ...`
Truthy(x) ==
    CASE x.t = "none" -> FALSE
      [] x.t = "str" -> x.v # <<>>
      [] x.t = "int" -> x.v # 0
      [] OTHER -> TRUE

\* hasattr(model, 'save')
HasSave(model) == model.t = "object" /\ model.save

\* exceptions
NoRaise == "none"
InvalidModel == "Exception: Invalid model"
ApiException == "ApiException"
AttributeError == "AttributeError"
AssertionError == "AssertionError"
UnboundLocalError == "UnboundLocalError"

(***************************************************************************)
(* Local file system                                                       *)
(***************************************************************************)
\* os.getcwd()
Cwd == <<"/", "w">>
\* 'temp_model.h5'
TempModel == <<"temp_model.h5">>
RelFile == <<"m.h5">>
AbsFile == <<"/", "x.h5">>
Missing == <<"q.h5">>

\* os.path.join(a, b) on a POSIX system
Join(a, b) ==
    IF b # <<>> /\ b[1] = "/" THEN b
    ELSE IF a = <<>> \/ a[Len(a)] = "/" THEN a \o b
    ELSE a \o <<"/">> \o b

\* os.path.isfile(p): a relative path is resolved against the working directory
IsFile(files, p) == Join(Cwd, p) \in files

(***************************************************************************)
(* Remote collaborators                                                    *)
(***************************************************************************)
Call(api, args) == [api |-> api, args |-> args]
Response(call) == [t |-> "response", of |-> call]
Report(what) == [t |-> "report", of |-> what]

\* a client session, workspace and experiment handed in by the caller
Skil1 == [t |-> "skil", server_id |-> Str(<<"srv1">>)]
WorkSpace1 == [t |-> "work_space", id |-> Str(<<"w1">>), skil |-> Skil1]
Experiment1 == [t |-> "experiment", id |-> Str(<<"e1">>), work_space |-> WorkSpace1]
\* the ones Model.__init__ builds itself when no experiment is given
Skil2 == [t |-> "skil", server_id |-> Str(<<"srv2">>)]
WorkSpace2 == [t |-> "work_space", id |-> Str(<<"w2">>), skil |-> Skil2]
Experiment2 == [t |-> "experiment", id |-> Str(<<"e2">>), work_space |-> WorkSpace2]

\* skil.get_model_path(model_file_name)
GetModelPath(skil, fileName) == [t |-> "model_path", skil |-> skil.server_id, file |-> fileName]

VARIABLES
    obj,        \* "none": nothing constructed yet; "created"; "failed": the constructor raised
    self,       \* the attributes of the Model object
    files,      \* the files that exist on the local disk (absolute paths)
    last,       \* the last call and its arguments
    raised,     \* the exception the last call raised, or NoRaise
    issued,     \* the remote calls the last call attempted, in order
    localOps,   \* the local serialization steps (remove, save) of the last call
    printed,    \* what the last call printed through skil.printer
    built,      \* the Deployments the last call constructed: name, and id once the platform gave one
    returned,   \* the value the last call returned
    roundTrip,  \* how far the calls deploy, undeploy, delete have come in sequence
    nOps

vars == <<obj, self, files, last, raised, issued, localOps, printed, built, returned, roundTrip, nOps>>

NoModel ==
    [id |-> Unset, name |-> Unset, version |-> Unset, model_name |-> Unset,
     model_path |-> Unset, evaluations |-> Unset, experiment |-> Unset,
     work_space |-> Unset, skil |-> Unset, deployment |-> Unset,
     model_deployment |-> Unset]

Init ==
    /\ obj = "none"
    /\ self = NoModel
    /\ files \in { {Join(Cwd, RelFile), AbsFile},
                   {Join(Cwd, RelFile), AbsFile, Join(Cwd, TempModel)} }
    /\ last = [op |-> "init"]
    /\ raised = NoRaise
    /\ issued = <<>>
    /\ localOps = <<>>
    /\ printed = <<>>
    /\ built = <<>>
    /\ returned = None
    /\ roundTrip = <<>>
    /\ nOps = 0

(***************************************************************************)
(* Model.__init__, create=True                                             *)
(***************************************************************************)
Models == {Str(RelFile), Str(AbsFile), Str(Missing), Str(TempModel),
           Obj(TRUE), Obj(FALSE), None}
IdArgs == {None, Str(<<"id1">>)}
NameArgs == {None, Str(<<"n">>)}
VersionArgs == {None, PInt(2)}
ExperimentArgs == {None, Experiment1}
LabelArgs == {Str(<<>>)}
\* the values uuid.uuid1() can return
UUIDs == {Uuid(1)}

\* lines 30-39 without the hasattr check: whatever is no file is saved
ArtifactKindUnchecked(fs, model) ==
    IF model.t = "str" /\ IsFile(fs, model.v) THEN "path" ELSE "object"

\* which branch of lines 30-39 the input takes
ArtifactKind(fs, model) ==
    IF model.t = "str" /\ IsFile(fs, model.v) THEN "path"
    ELSE IF HasSave(model) THEN "object"
    ELSE "invalid"

\* line 31 lost: every artifact goes through the temporary file
ModelFileNameAlwaysTemp(fs, model) == TempModel

\* lines 31 and 34
ModelFileName(fs, model) ==
    IF ArtifactKind(fs, model) = "path" THEN model.v ELSE TempModel

\* lines 34-37: the local serialization of an in-memory model
SaveSteps(fs, model) ==
    IF ArtifactKind(fs, model) = "object"
    THEN (IF IsFile(fs, TempModel) THEN << <<"remove", TempModel>> >> ELSE <<>>)
         \o << <<"save", TempModel>> >>
    ELSE <<>>

FilesAfterSave(fs, model) ==
    IF ArtifactKind(fs, model) = "object" THEN fs \cup {Join(Cwd, TempModel)} ELSE fs

\* lines 40-47
ExperimentOf(experiment) == IF ~Truthy(experiment) THEN Experiment2 ELSE experiment

SessionCalls(experiment) ==
    IF ~Truthy(experiment)
    THEN << Call("Skil", <<>>), Call("WorkSpace", <<Skil2.server_id>>),
            Call("Experiment", <<WorkSpace2.id>>) >>
    ELSE <<>>

\* lines 60-68
ModelInstanceEntity(fs, model, id, name, version, experiment, labels) ==
    [uri |-> GetModelPath(ExperimentOf(experiment).work_space.skil, ModelFileName(fs, model)),
     model_id |-> id,
     model_labels |-> labels,
     model_name |-> name,
     model_version |-> IF Truthy(version) THEN version ELSE PInt(1),
     experiment_id |-> ExperimentOf(experiment).id]

\* the remote calls of a create that nothing interrupts
CreateCalls(fs, model, id, name, version, experiment, labels) ==
    IF ArtifactKind(fs, model) = "invalid" THEN <<>>
    ELSE SessionCalls(experiment)
         \o << Call("upload_model", <<Str(Join(Cwd, ModelFileName(fs, model)))>>),
               Call("add_model_instance",
                    <<ExperimentOf(experiment).work_space.skil.server_id,
                      ModelInstanceEntity(fs, model, id, name, version, experiment, labels)>>) >>

\* lines 50-56: the attributes of the new object
CreatedModel(fs, model, id, name, version, experiment, u) ==
    [NoModel EXCEPT
        !.experiment = ExperimentOf(experiment),
        !.work_space = ExperimentOf(experiment).work_space,
        !.skil = ExperimentOf(experiment).work_space.skil,
        !.model_name = Str(ModelFileName(fs, model)),
        !.model_path = GetModelPath(ExperimentOf(experiment).work_space.skil,
                                    ModelFileName(fs, model)),
        !.id = IF Truthy(id) THEN id ELSE u,
        !.name = IF Truthy(name) THEN name ELSE Str(ModelFileName(fs, model)),
        !.version = IF Truthy(version) THEN version ELSE PInt(1),
        !.evaluations = <<>>]

Create ==
    /\ obj = "none"
    /\ \E model \in Models, id \in IdArgs, name \in NameArgs, version \in VersionArgs,
          experiment \in ExperimentArgs, labels \in LabelArgs, verbose \in BOOLEAN,
          u \in UUIDs :
        LET kind == ArtifactKind(files, model)
            calls == CreateCalls(files, model, id, name, version, experiment, labels)
        IN \E fail \in 0..Len(calls) :
            /\ last' = [op |-> "create", model |-> model, id |-> id, name |-> name,
                        version |-> version, experiment |-> experiment,
                        verbose |-> verbose, fail |-> fail]
            /\ localOps' = SaveSteps(files, model)
            /\ files' = FilesAfterSave(files, model)
            /\ issued' = IF fail = 0 THEN calls ELSE SubSeq(calls, 1, fail)
            /\ raised' = IF kind = "invalid" THEN InvalidModel
                         ELSE IF fail # 0 THEN ApiException
                         ELSE NoRaise
            /\ obj' = IF kind # "invalid" /\ fail = 0 THEN "created" ELSE "failed"
            /\ self' = IF kind # "invalid" /\ fail = 0
                       THEN CreatedModel(files, model, id, name, version, experiment, u)
                       ELSE NoModel
            /\ printed' = IF kind # "invalid" /\ fail = 0 /\ verbose
                          THEN <<Response(calls[Len(calls)])>> ELSE <<>>
    /\ built' = <<>>
    /\ returned' = None
    /\ UNCHANGED <<roundTrip, nOps>>

(***************************************************************************)
(* Model.__init__, create=False (get_model_by_id)                          *)
(***************************************************************************)
\* the entities the platform may return for get_model_instance
Entities == { [model_name |-> Str(<<"n">>), model_version |-> PInt(2)],
              [model_name |-> Str(<<"r">>), model_version |-> PInt(1)] }

\* the exception of lines 73-82 when the remote call does not fail:
\* line 74 dereferences the experiment, line 76 asserts the id, and line 82
\* reads model_file_name, a local that only the create branch assigns
LoadRaised(id, experiment) ==
    IF experiment.t # "experiment" THEN AttributeError
    ELSE IF id = None THEN AssertionError
    ELSE UnboundLocalError

LoadCalls(id, experiment) ==
    IF experiment.t = "experiment" /\ id # None
    THEN << Call("get_model_instance", <<experiment.work_space.skil.server_id, id>>) >>
    ELSE <<>>

\* the attributes assigned before the constructor raises
LoadedAttributes(id, experiment, entity, fail) ==
    IF experiment.t # "experiment" THEN [NoModel EXCEPT !.experiment = experiment]
    ELSE LET base == [NoModel EXCEPT !.experiment = experiment,
                                     !.work_space = experiment.work_space,
                                     !.skil = experiment.work_space.skil]
         IN IF id = None THEN base
            ELSE IF fail # 0 THEN [base EXCEPT !.id = id]
            ELSE [base EXCEPT !.id = id, !.name = entity.model_name,
                              !.version = entity.model_version]

get_model_by_id ==
    /\ obj = "none"
    /\ \E id \in IdArgs, experiment \in ExperimentArgs, entity \in Entities :
        LET calls == LoadCalls(id, experiment)
        IN \E fail \in 0..Len(calls) :
            /\ last' = [op |-> "load", id |-> id, experiment |-> experiment,
                        entity |-> entity, fail |-> fail]
            /\ issued' = calls
            /\ raised' = IF fail # 0 THEN ApiException ELSE LoadRaised(id, experiment)
            /\ obj' = IF raised' = NoRaise THEN "loaded" ELSE "failed"
            /\ self' = LoadedAttributes(id, experiment, entity, fail)
    /\ localOps' = <<>>
    /\ printed' = <<>>
    /\ built' = <<>>
    /\ returned' = None
    /\ UNCHANGED <<files, roundTrip, nOps>>

(***************************************************************************)
(* Methods of a constructed Model                                          *)
(***************************************************************************)
\* can a method be called: the constructor returned an object
Usable == obj \in {"created", "loaded"} /\ nOps < MaxOps

\* the calls deploy, undeploy, delete made one after the other: a call that
\* continues the sequence is appended, a deploy starts it anew, any other
\* call breaks it
RoundTripOrder == <<"deploy", "undeploy", "delete">>

Remember(summary) ==
    IF Len(roundTrip) < 3 /\ summary.op = RoundTripOrder[Len(roundTrip) + 1] /\ Len(roundTrip) > 0
    THEN Append(roundTrip, summary)
    ELSE IF summary.op = "deploy" THEN <<summary>>
    ELSE <<>>

(***************************************************************************)
(* Model.delete                                                            *)
(***************************************************************************)
\* delete without the try/except
DeleteRaisedPropagating(failed) == IF failed THEN ApiException ELSE NoRaise

\* lines 88-92: the try/except around delete_model_instance
DeleteRaised(failed) == NoRaise

DeleteCalls(m) == << Call("delete_model_instance", <<m.skil.server_id, m.id>>) >>

Delete ==
    /\ Usable
    /\ \E fail \in 0..1 :
        /\ last' = [op |-> "delete", fail |-> fail]
        /\ issued' = DeleteCalls(self)
        /\ raised' = DeleteRaised(fail # 0)
        /\ printed' = IF fail # 0 /\ DeleteRaised(TRUE) = NoRaise
                      THEN <<Report("delete_model_instance")>> ELSE <<>>
        /\ roundTrip' = Remember([op |-> "delete", raised |-> raised', fail |-> fail])
    /\ localOps' = <<>>
    /\ built' = <<>>
    /\ returned' = None
    /\ nOps' = nOps + 1
    /\ UNCHANGED <<obj, self, files>>

(***************************************************************************)
(* Model.add_evaluation                                                    *)
(***************************************************************************)
EvalIdArgs == {None, Str(<<"ev1">>)}
Accuracies == {PInt(1)}

\* float(accuracy)
ToFloat(x) == PFloat(x.v)

\* lines 95-109
EvaluationResultsEntity(m, accuracy, id, name, version) ==
    [evaluation |-> Str(<<>>),
     eval_name |-> IF Truthy(name) THEN name ELSE m.id,
     model_instance_id |-> m.id,
     accuracy |-> ToFloat(accuracy),
     eval_id |-> IF Truthy(id) THEN id ELSE m.id,
     eval_version |-> IF Truthy(version) THEN version ELSE PInt(1)]

AddEvaluationCalls(m, accuracy, id, name, version) ==
    << Call("add_evaluation_result",
            <<m.skil.server_id, EvaluationResultsEntity(m, accuracy, id, name, version)>>) >>

\* line 111: the key the response is stored under
EvaluationKey(m, id) == id

\* d[k] = v on a dict
DictSet(d, k, v) == (k :> v) @@ d

AddEvaluation ==
    /\ Usable
    /\ \E accuracy \in Accuracies, id \in EvalIdArgs, fail \in 0..1 :
        LET calls == AddEvaluationCalls(self, accuracy, id, None, None)
        IN /\ last' = [op |-> "add_evaluation", accuracy |-> accuracy, id |-> id,
                       fail |-> fail]
           /\ issued' = calls
           /\ raised' = IF fail # 0 THEN ApiException ELSE NoRaise
           /\ self' = IF fail # 0 THEN self
                      ELSE [self EXCEPT !.evaluations =
                                DictSet(@, EvaluationKey(self, id), Response(calls[1]))]
           /\ roundTrip' = Remember([op |-> "add_evaluation", raised |-> raised', fail |-> fail])
    /\ localOps' = <<>>
    /\ printed' = <<>>
    /\ built' = <<>>
    /\ returned' = None
    /\ nOps' = nOps + 1
    /\ UNCHANGED <<obj, files>>

(***************************************************************************)
(* Model.deploy                                                            *)
(***************************************************************************)
\* a Deployment handed in by the caller
Deployment1 == [t |-> "deployment", name |-> Str(<<"d">>),
                response |-> [id |-> Str(<<"dep1">>)]]
DeploymentArgs == {None, Deployment1}
\* the ids the platform may give to a new deployment
DeploymentIds == {Str(<<"dep2">>)}

\* skil.Deployment(skil=..., name=...): one remote call, whose response is kept
NewDeployment(skil, name, d) ==
    [t |-> "deployment", name |-> name, response |-> [id |-> d]]

DeploymentCall(skil, name) == Call("Deployment", <<skil.server_id, name>>)

\* line 128 without the test: a Deployment is built on every call
NeedsDeploymentAlways(deployment) == TRUE

\* line 128
NeedsDeployment(deployment) == ~Truthy(deployment)

\* lines 128-129: the deployment the rest of deploy works with
DeployTarget(m, deployment, d) ==
    IF NeedsDeployment(deployment) THEN NewDeployment(m.skil, m.name, d) ELSE deployment

\* line 132 copied from line 131 with the last segment left as it was
DeployUrisBothDefault(deploymentName, name) ==
    << deploymentName.v \o <<"/", "model", "/">> \o name.v \o <<"/", "default">>,
       deploymentName.v \o <<"/", "model", "/">> \o name.v \o <<"/", "default">> >>

\* "{}/model/{}/default".format(...), "{}/model/{}/v1".format(...)
DeployUris(deploymentName, name) ==
    << deploymentName.v \o <<"/", "model", "/">> \o name.v \o <<"/", "default">>,
       deploymentName.v \o <<"/", "model", "/">> \o name.v \o <<"/", "v1">> >>

\* lines 134-141
ImportModelRequest(m, target, scale) ==
    [name |-> m.name, scale |-> scale, file_location |-> m.model_path,
     model_type |-> Str(<<"model">>), uri |-> DeployUris(target.name, m.name),
     input_names |-> None, output_names |-> None]

\* Service(skil, name, deployment, model_deployment)
Service(m, deployment, modelDeployment, running) ==
    [t |-> "service", model_name |-> m.name, deployment |-> deployment,
     model_deployment |-> modelDeployment, running |-> running]

\* the remote calls of a deploy that nothing interrupts
DeployCalls(m, deployment, d, startServer) ==
    (IF NeedsDeployment(deployment) THEN <<DeploymentCall(m.skil, m.name)>> ELSE <<>>)
    \o << Call("deploy_model",
               <<DeployTarget(m, deployment, d).response.id,
                 ImportModelRequest(m, DeployTarget(m, deployment, d), PInt(1))>>) >>
    \o (IF startServer THEN << Call("start", <<m.name>>) >> ELSE <<>>)

Deploy ==
    /\ Usable
    /\ \E deployment \in DeploymentArgs, startServer \in BOOLEAN, verbose \in BOOLEAN,
          d \in DeploymentIds :
        LET calls == DeployCalls(self, deployment, d, startServer)
            target == DeployTarget(self, deployment, d)
            nBuild == IF NeedsDeployment(deployment) THEN 1 ELSE 0
        IN \E fail \in 0..Len(calls) :
            LET gotTarget == fail = 0 \/ fail > nBuild
                deployed == fail = 0 \/ fail > nBuild + 1
                modelDeployment == Response(calls[nBuild + 1])
            IN /\ last' = [op |-> "deploy", deployment |-> deployment,
                           startServer |-> startServer, fail |-> fail]
               /\ issued' = IF fail = 0 THEN calls ELSE SubSeq(calls, 1, fail)
               /\ raised' = IF fail # 0 THEN ApiException ELSE NoRaise
               /\ built' = IF NeedsDeployment(deployment)
                           THEN << [name |-> target.name,
                                    id |-> IF gotTarget THEN target.response.id ELSE None] >>
                           ELSE <<>>
               /\ self' = [self EXCEPT
                             !.deployment = IF gotTarget THEN target.response ELSE @,
                             !.model_deployment = IF deployed THEN modelDeployment ELSE @]
               /\ printed' = IF deployed /\ verbose THEN <<modelDeployment>> ELSE <<>>
               /\ returned' = IF fail = 0
                              THEN Service(self, target.response, modelDeployment, startServer)
                              ELSE None
               /\ roundTrip' = Remember([op |-> "deploy", raised |-> raised', fail |-> fail])
    /\ localOps' = <<>>
    /\ nOps' = nOps + 1
    /\ UNCHANGED <<obj, files>>

(***************************************************************************)
(* Model.undeploy                                                          *)
(***************************************************************************)
\* undeploy without the try/except
UndeployRaisedPropagating(m, failed) ==
    IF m.deployment = Unset THEN AttributeError
    ELSE IF failed THEN ApiException
    ELSE NoRaise

\* lines 157-161: self.deployment is read inside the try, which catches
\* ApiException only
UndeployRaised(m, failed) ==
    IF m.deployment = Unset THEN AttributeError ELSE NoRaise

UndeployCalls(m) ==
    IF m.deployment = Unset THEN <<>>
    ELSE << Call("delete_model", <<m.deployment.id, m.id>>) >>

Undeploy ==
    /\ Usable
    /\ \E fail \in 0..Len(UndeployCalls(self)) :
        /\ last' = [op |-> "undeploy", fail |-> fail]
        /\ issued' = UndeployCalls(self)
        /\ raised' = UndeployRaised(self, fail # 0)
        /\ printed' = IF fail # 0 /\ UndeployRaised(self, TRUE) = NoRaise
                      THEN <<Report("delete_model_instance")>> ELSE <<>>
        /\ roundTrip' = Remember([op |-> "undeploy", raised |-> raised', fail |-> fail])
    /\ localOps' = <<>>
    /\ built' = <<>>
    /\ returned' = None
    /\ nOps' = nOps + 1
    /\ UNCHANGED <<obj, self, files>>

Next ==
    \/ Create
    \/ get_model_by_id
    \/ Delete
    \/ AddEvaluation
    \/ Deploy
    \/ Undeploy

Spec == Init /\ [][Next]_vars

(***************************************************************************)
(* Properties                                                              *)
(***************************************************************************)
\* the remote calls of the last call that went to the given endpoint
IssuedTo(api) == { i \in 1..Len(issued) : issued[i].api = api }

\* an input that is neither an existing file path nor an object with a save method
InvalidInput(model) ==
    /\ ~(model.t = "str" /\ Join(Cwd, model.v) \in files)
    /\ ~(model.t = "object" /\ model.save)

\* C1: a create whose input is neither an existing file path nor an object
\* with a save method raises the invalid-model exception, and no remote call
\* (session, workspace, experiment, upload, registration) and no local
\* serialization step has been attempted, with or without an experiment.
C1_InvalidArtifactFailsFast ==
    (last.op = "create" /\ InvalidInput(last.model)) =>
        /\ raised = InvalidModel
        /\ issued = <<>>
        /\ localOps = <<>>
        /\ obj = "failed"

C1_Witness ==
    /\ last.op = "create"
    /\ last.model = Obj(FALSE)
    /\ last.experiment = None
    /\ raised = InvalidModel

\* C2: add_evaluation without an id sends the model's id as the evaluation
\* id, and afterwards the evaluations map holds the response under the
\* model's id.
C2_EvaluationStoredUnderModelId ==
    (last.op = "add_evaluation" /\ last.id = None /\ raised = NoRaise) =>
        /\ issued[1].args[2].eval_id = self.id
        /\ self.id \in DOMAIN self.evaluations
        /\ self.evaluations[self.id] = Response(issued[1])

\* C3: a load with an id and a valid experiment issues one get_model_instance
\* call for that id and yields a Model with that id and the name and version
\* of the fetched entity; without an id it fails and issues no remote call.
C3_LoadYieldsModel ==
    (last.op = "load" /\ last.experiment = Experiment1) =>
        IF last.id = None
        THEN raised # NoRaise /\ issued = <<>>
        ELSE /\ issued = << Call("get_model_instance", <<Skil1.server_id, last.id>>) >>
             /\ last.fail = 0 =>
                    /\ raised = NoRaise
                    /\ obj = "loaded"
                    /\ self.id = last.id
                    /\ self.name = last.entity.model_name
                    /\ self.version = last.entity.model_version

\* C4: undeploy does not raise when its remote delete call fails with an API
\* exception, it reports the failure; and when a deploy whose remote calls
\* succeed is followed by undeploy and then delete, none of the three raises,
\* whether or not the remote deletions fail.
C4_UndeploySwallowsApiFailure ==
    /\ (last.op = "undeploy" /\ last.fail # 0) =>
            /\ raised = NoRaise
            /\ printed = <<Report("delete_model_instance")>>
    /\ (Len(roundTrip) > 0 /\ roundTrip[1].fail = 0) =>
            \A i \in 1..Len(roundTrip) : roundTrip[i].raised = NoRaise

C4_Witness ==
    /\ Len(roundTrip) = 3
    /\ roundTrip[1].fail = 0
    /\ roundTrip[2].fail # 0
    /\ roundTrip[3].fail # 0
    /\ raised = NoRaise

\* C5: delete issues exactly one delete_model_instance request, for the
\* model's id; it never raises, a failure of the request is reported, and the
\* attributes of the Model are left as they were.
C5_DeleteSwallowsApiFailure ==
    [][last'.op = "delete" =>
            /\ issued' = << Call("delete_model_instance", <<self.skil.server_id, self.id>>) >>
            /\ raised' = NoRaise
            /\ self' = self
            /\ (last'.fail # 0 => printed' = <<Report("delete_model_instance")>>)]_vars

C5_Witness ==
    /\ last.op = "delete"
    /\ last.fail # 0
    /\ obj = "created"
    /\ raised = NoRaise
    /\ printed # <<>>

\* C6: a deploy without a deployment constructs exactly one Deployment, named
\* with the model's name, and the deploy request goes to that deployment's
\* id; a deploy with a deployment constructs none and the request goes to the
\* id of the one supplied.
C6_DeployBuildsOneDeployment ==
    last.op = "deploy" =>
        IF last.deployment = None
        THEN /\ Len(built) = 1
             /\ built[1].name = self.name
             /\ \A i \in IssuedTo("deploy_model") : issued[i].args[1] = built[1].id
        ELSE /\ built = <<>>
             /\ IssuedTo("Deployment") = {}
             /\ \A i \in IssuedTo("deploy_model") :
                    issued[i].args[1] = last.deployment.response.id

C6_Witness ==
    /\ last.op = "deploy"
    /\ last.deployment = None
    /\ Len(built) = 1
    /\ IssuedTo("deploy_model") # {}
    /\ raised = NoRaise

\* C7: a create from a valid local file path makes no local serialization
\* step (no save, no temporary file removed or written), uploads the file the
\* given path denotes and keeps the given path as the model's file name.
C7_PathUsedAsIs ==
    (last.op = "create" /\ last.model.t = "str" /\ Join(Cwd, last.model.v) \in files) =>
        /\ localOps = <<>>
        /\ \A i \in IssuedTo("upload_model") :
                Join(Cwd, issued[i].args[1].v) = Join(Cwd, last.model.v)
        /\ obj = "created" => self.model_name = last.model

C7_Witness ==
    /\ last.op = "create"
    /\ last.model = Str(RelFile)
    /\ obj = "created"
    /\ IssuedTo("upload_model") # {}

\* C8: the deploy request carries exactly two URIs, made of the deployment
\* name, "model" and the model name, which have the same prefix and end in
\* "default" and "v1".
C8_DeployUrisDifferInLastSegment ==
    last.op = "deploy" =>
        \A i \in IssuedTo("deploy_model") :
            LET uris == issued[i].args[2].uri
                deploymentName == IF last.deployment = None THEN self.name.v
                                  ELSE last.deployment.name.v
                prefix == deploymentName \o <<"/", "model", "/">> \o self.name.v \o <<"/">>
            IN /\ Len(uris) = 2
               /\ uris[1] = prefix \o <<"default">>
               /\ uris[2] = prefix \o <<"v1">>

C8_Witness ==
    /\ last.op = "deploy"
    /\ last.deployment = Deployment1
    /\ IssuedTo("deploy_model") # {}
    /\ self.name # Deployment1.name

\* C9: the metadata registered by add_model_instance carries the id, the name
\* and the version of the created Model, and the registration follows the
\* upload.
C9_RegisteredMetadataIsTheModels ==
    (last.op = "create" /\ obj = "created") =>
        LET n == Len(issued)
        IN /\ issued[n].api = "add_model_instance"
           /\ issued[n - 1].api = "upload_model"
           /\ issued[n].args[2].model_id = self.id
           /\ issued[n].args[2].model_name = self.name
           /\ issued[n].args[2].model_version = self.version

\* C10: undeploy never raises, whatever was called before it, and the remote
\* delete call it issues names the deployment recorded by the last deploy.
C10_UndeployNeverRaises ==
    last.op = "undeploy" =>
        /\ raised = NoRaise
        /\ \A i \in IssuedTo("delete_model") :
                issued[i].args = <<self.deployment.id, self.id>>
====
